---- MODULE Spec2Model ----
(***************************************************************************)
(* Model of Application (src/main.py): the request pipeline                *)
(* process_request and its helper _generate_embedding, together with the   *)
(* collaborators they call (encoders, memory pool, agents, metrics).       *)
(*                                                                         *)
(* One request is in flight at a time; `pc` is the position of             *)
(* process_request inside its body.  Collaborators are external: each call *)
(* either returns one of a small set of values or raises.                  *)
(*                                                                         *)
(* Strings that the code lower-cases or compares (type keys, class names)  *)
(* are sequences of one-character strings, so that str.lower is computed.  *)
(***************************************************************************)
EXTENDS Integers, Sequences, FiniteSets, TLC

VARIABLES
    agents,          \* self.agents: type key -> agent instance
    pool,            \* self.memory: the records held by the MemoryPool
    nextId,          \* number of uuid4() values generated so far
    issued,          \* request_id values returned in responses, in order
    served,          \* number of requests received so far
    pc,              \* position inside process_request
    request,         \* the request mapping of the call in flight
    embedding,       \* local `embedding`
    memory,          \* context["memory"]
    agent_type,      \* local `agent_type`
    selected_agent,  \* local `selected_agent`
    result,          \* local `result`
    response,        \* what process_request gave back to its caller
    raised,          \* the exception that ended the try body, if any
    raisedAt,        \* the step whose call raised it
    encFailed,       \* an encoder raised an ordinary exception in this call
    calls,           \* collaborator calls of this request, in order
    arunInput,       \* the `input=` mapping handed to arun
    storeArgs,       \* the arguments handed to memory.store
    routingArg,      \* the argument handed to record_routing
    tasks            \* the concurrent process_request tasks (ConcSpec only)

vars == <<agents, pool, nextId, issued, served, pc, request, embedding, memory,
          agent_type, selected_agent, result, response, raised, raisedAt,
          encFailed, calls, arunInput, storeArgs, routingArg, tasks>>

-----------------------------------------------------------------------------
(* Bounds                                                                  *)

MaxRequests == 2

\* number of concurrent tasks in ConcSpec
NumTasks == 2

-----------------------------------------------------------------------------
(* Strings                                                                 *)

S_marketing      == <<"m","a","r","k","e","t","i","n","g">>
S_operation      == <<"o","p","e","r","a","t","i","o","n">>
S_research       == <<"r","e","s","e","a","r","c","h">>
S_Operation      == <<"O","p","e","r","a","t","i","o","n">>
S_research_sp    == <<" ","r","e","s","e","a","r","c","h"," ">>
S_unknown_type   == <<"u","n","k","n","o","w","n","_","t","y","p","e">>
S_MarketingAgent == <<"M","a","r","k","e","t","i","n","g","A","g","e","n","t">>
S_OperationAgent == <<"O","p","e","r","a","t","i","o","n","A","g","e","n","t">>
S_ResearchAgent  == <<"R","e","s","e","a","r","c","h","A","g","e","n","t">>

\* str.lower on the characters that occur
LowerChar(c) ==
    CASE c = "M" -> "m"
      [] c = "O" -> "o"
      [] c = "R" -> "r"
      [] c = "A" -> "a"
      [] OTHER -> c

Lower(s) == [i \in DOMAIN s |-> LowerChar(s[i])]

-----------------------------------------------------------------------------
(* Values                                                                  *)

\* a field of the request mapping: missing, or present with a value
Absent     == [has |-> FALSE, val |-> ""]
Field(v)   == [has |-> TRUE, val |-> v]
AbsentType == [has |-> FALSE, val |-> <<>>]

\* dict.get(key): None (falsy) when the key is missing
Truthy(f) == f.has /\ f.val # ""

\* embeddings: None, or a list of floats
NoneEmb     == [isNone |-> TRUE, vec |-> <<>>]
Emb(v)      == [isNone |-> FALSE, vec |-> v]
EmbTruthy(e) == ~e.isNone /\ Len(e.vec) > 0

\* exceptions
NoExc          == [kind |-> "none", msg |-> ""]
Exc(k, m)      == [kind |-> k, msg |-> m]
IsKeyError(e)  == e.kind = "KeyError"
\* KeyError is a subclass of Exception; CancelledError is a BaseException
IsException(e) == e.kind \in {"KeyError", "Exception"}

\* what a collaborator may raise
Raisable  == {Exc("Exception", "boom"), Exc("KeyError", "secret")}
Cancelled == Exc("CancelledError", "")

\* agent results: a mapping, given by its set of keys ({} is falsy)
EmptyResult == {}
Results     == {EmptyResult, {"answer"}}

NoAgent == [cls |-> <<>>]

Code500 == 500

\* responses of process_request
NoResponse == [how |-> "none", result |-> {}, keys |-> {}, detail |-> "",
               code |-> 0, request_id |-> 0]
\* the context mapping returned in place of the result
ResultResponse_Context(r) == [how |-> "result", result |-> {"query", "memory"},
               keys |-> {}, detail |-> "", code |-> 0, request_id |-> 0]

ResultResponse(r) == [how |-> "result", result |-> r, keys |-> {}, detail |-> "",
               code |-> 0, request_id |-> 0]
InvalidAgentType(e) == [how |-> "invalid_agent_type", result |-> {},
               keys |-> {"error"}, detail |-> e.msg, code |-> 0, request_id |-> 0]
Busy(id) == [how |-> "busy", result |-> {}, keys |-> {"error", "code", "request_id"},
               detail |-> "", code |-> Code500, request_id |-> id]
Propagated(e) == [how |-> "propagated", result |-> {}, keys |-> {}, detail |-> e.msg,
               code |-> 0, request_id |-> 0]

\* arguments of the collaborator calls, before any call
NoInput   == [called |-> FALSE, keys |-> {}, query |-> "", intermediate_steps |-> <<>>]
NoStore   == [called |-> FALSE, embedding |-> NoneEmb, query |-> "", result |-> {}]
NoRouting == [called |-> FALSE, matched |-> FALSE]

-----------------------------------------------------------------------------
(* Inputs                                                                  *)

TypeValues  == {AbsentType, Field(S_marketing), Field(S_operation), Field(S_research),
                Field(S_Operation), Field(S_research_sp), Field(S_unknown_type),
                Field(S_MarketingAgent)}
TextValues  == {Absent, Field(""), Field("promo plan")}
ImageValues == {Absent, Field(""), Field("http://img")}

Requests == [type : TypeValues, text : TextValues, image_url : ImageValues]

EncoderReturns == {NoneEmb, Emb(<<>>), Emb(<<1>>), Emb(<<1, 2>>)}

\* the concurrent tasks, each before its call of process_request
Tasks == 1..NumTasks

NewTask(t) == [pc |-> "new", request |-> [type |-> AbsentType, text |-> Absent,
                                           image_url |-> Absent],
               embedding |-> NoneEmb, memory |-> <<>>, result |-> EmptyResult,
               stored |-> 0, how |-> "none"]

-----------------------------------------------------------------------------
(* Application.__init__ / _init_agents                                     *)

InitAgents ==
    (S_marketing :> [cls |-> S_MarketingAgent]) @@
    (S_operation :> [cls |-> S_OperationAgent]) @@
    (S_research  :> [cls |-> S_ResearchAgent])

Init ==
    /\ agents = InitAgents
    /\ pool = <<>>
    /\ nextId = 0
    /\ issued = <<>>
    /\ served = 0
    /\ pc = "idle"
    /\ request = [type |-> AbsentType, text |-> Absent, image_url |-> Absent]
    /\ embedding = NoneEmb
    /\ memory = <<>>
    /\ agent_type = <<>>
    /\ selected_agent = NoAgent
    /\ result = EmptyResult
    /\ response = NoResponse
    /\ raised = NoExc
    /\ raisedAt = "none"
    /\ encFailed = FALSE
    /\ calls = <<>>
    /\ arunInput = NoInput
    /\ storeArgs = NoStore
    /\ routingArg = NoRouting
    /\ tasks = [t \in Tasks |-> NewTask(t)]

-----------------------------------------------------------------------------
(* Exception handling of process_request                                   *)

\* uuid.uuid4(): a value no earlier call returned
Uuid4(n) == n + 1

\* one clause `except (KeyError, Exception)` with the first clause's body
Handler_Merged(e) ==
    IF IsException(e) THEN "invalid_agent_type" ELSE "propagate"

\* the generic clause missing
Handler_KeyErrorOnly(e) ==
    IF IsKeyError(e) THEN "invalid_agent_type" ELSE "propagate"

\* the except clauses of process_request, in order
Handler(e) ==
    IF IsKeyError(e) THEN "invalid_agent_type"
    ELSE IF IsException(e) THEN "busy"
    ELSE "propagate"

\* exception e leaves the try body at step `at`
Raise(e, at) ==
    /\ raised' = e
    /\ raisedAt' = at
    /\ pc' = "done"
    /\ CASE Handler(e) = "invalid_agent_type" ->
               /\ response' = InvalidAgentType(e)
               /\ UNCHANGED <<nextId, issued>>
         [] Handler(e) = "busy" ->
               /\ response' = Busy(Uuid4(nextId))
               /\ nextId' = Uuid4(nextId)
               /\ issued' = Append(issued, Uuid4(nextId))
         [] OTHER ->
               /\ response' = Propagated(e)
               /\ UNCHANGED <<nextId, issued>>

\* the store statement written twice
StepAfter_StoreAgain(p) ==
    CASE p = "embed"    -> "retrieve"
      [] p = "retrieve" -> "route"
      [] p = "route"    -> "execute"
      [] p = "execute"  -> "store"
      [] p = "store"    -> "store"
      [] p = "record"   -> "respond"
      [] p = "respond"  -> "done"

\* record_routing left out
StepAfter_NoRecord(p) ==
    CASE p = "embed"    -> "retrieve"
      [] p = "retrieve" -> "route"
      [] p = "route"    -> "execute"
      [] p = "execute"  -> "store"
      [] p = "store"    -> "respond"
      [] p = "record"   -> "respond"
      [] p = "respond"  -> "done"

\* the statement that follows each step of the try body when it does not raise
StepAfter(p) ==
    CASE p = "embed"    -> "retrieve"
      [] p = "retrieve" -> "route"
      [] p = "route"    -> "execute"
      [] p = "execute"  -> "store"
      [] p = "store"    -> "record"
      [] p = "record"   -> "respond"
      [] p = "respond"  -> "done"

-----------------------------------------------------------------------------
(* A caller invokes process_request(req)                                   *)

Receive(req) ==
    /\ pc \in {"idle", "done"}
    /\ served < MaxRequests
    /\ served' = served + 1
    /\ request' = req
    /\ pc' = "embed"
    /\ embedding' = NoneEmb
    /\ memory' = <<>>
    /\ agent_type' = <<>>
    /\ selected_agent' = NoAgent
    /\ result' = EmptyResult
    /\ response' = NoResponse
    /\ raised' = NoExc
    /\ raisedAt' = "none"
    /\ encFailed' = FALSE
    /\ calls' = <<>>
    /\ arunInput' = NoInput
    /\ storeArgs' = NoStore
    /\ routingArg' = NoRouting
    /\ UNCHANGED <<tasks, agents, pool, nextId, issued>>

-----------------------------------------------------------------------------
(* Step 1: embedding = await self._generate_embedding(request)             *)

\* the else branch encodes the text without testing it
ChosenEncoder_NoTextTest(req) ==
    IF Truthy(req.image_url) THEN "encode_image" ELSE "encode_text"

\* the two branches in the other order
ChosenEncoder_TextFirst(req) ==
    IF Truthy(req.text) THEN "encode_text"
    ELSE IF Truthy(req.image_url) THEN "encode_image"
    ELSE "none"

\* which encoder _generate_embedding calls
ChosenEncoder(req) ==
    IF Truthy(req.image_url) THEN "encode_image"
    ELSE IF Truthy(req.text) THEN "encode_text"
    ELSE "none"

\* no try/except around the encoder calls
CaughtByEmbedding_Nothing(e) == FALSE

\* `except Exception` inside _generate_embedding
CaughtByEmbedding(e) == IsException(e)

EncoderOutcomes ==
    {[ret |-> TRUE, val |-> e, exc |-> NoExc] : e \in EncoderReturns} \cup
    {[ret |-> FALSE, val |-> NoneEmb, exc |-> x] : x \in Raisable \cup {Cancelled}}

GenerateEmbedding ==
    /\ pc = "embed"
    /\ LET enc == ChosenEncoder(request) IN
       IF enc = "none"
       THEN /\ embedding' = NoneEmb
            /\ pc' = StepAfter("embed")
            /\ UNCHANGED <<calls, encFailed, response, raised, raisedAt, nextId, issued>>
       ELSE \E out \in EncoderOutcomes :
            /\ calls' = Append(calls, enc)
            /\ IF out.ret
               THEN /\ embedding' = out.val
                    /\ pc' = StepAfter("embed")
                    /\ UNCHANGED <<encFailed, response, raised, raisedAt, nextId, issued>>
               ELSE IF CaughtByEmbedding(out.exc)
               THEN /\ embedding' = NoneEmb
                    /\ encFailed' = TRUE
                    /\ pc' = StepAfter("embed")
                    /\ UNCHANGED <<response, raised, raisedAt, nextId, issued>>
               ELSE /\ Raise(out.exc, "embed")
                    /\ encFailed' = IsException(out.exc)
                    /\ UNCHANGED embedding
    /\ UNCHANGED <<tasks, agents, pool, served, request, memory, agent_type, selected_agent,
                   result, arunInput, storeArgs, routingArg>>

-----------------------------------------------------------------------------
(* MemoryPool (cognition.memory)                                           *)

RECURSIVE Reverse(_)
Reverse(s) == IF s = <<>> THEN <<>> ELSE Append(Reverse(Tail(s)), Head(s))

\* retrieve: the payloads of the stored records, most recently stored first
PoolRetrieve(p, e) == Reverse([i \in DOMAIN p |-> p[i].payload])

\* MemoryPool(embedding_dim=self.config.embed_dim)
EmbedDim == 2

\* store: fails with DimensionMismatch when len(embedding) != embed_dim
PoolRejects(e) == Len(e.vec) # EmbedDim

DimensionMismatch == Exc("Exception", "DimensionMismatch")

\* store: appends one record
PoolStore(p, e, payload) == Append(p, [embedding |-> e, payload |-> payload])

-----------------------------------------------------------------------------
(* Step 2: context = {"query": request,                                    *)
(*                    "memory": retrieve(embedding) if embedding else []}  *)

\* `if embedding`: truthiness of the embedding
RetrieveGate(e) == EmbTruthy(e)

MemoryJoin ==
    /\ pc = "retrieve"
    /\ IF RetrieveGate(embedding)
       THEN /\ calls' = Append(calls, "retrieve")
            /\ \/ /\ memory' = PoolRetrieve(pool, embedding)
                  /\ pc' = StepAfter("retrieve")
                  /\ UNCHANGED <<response, raised, raisedAt, nextId, issued>>
               \/ \E x \in Raisable :
                  /\ Raise(x, "retrieve")
                  /\ UNCHANGED memory
       ELSE /\ memory' = <<>>
            /\ pc' = StepAfter("retrieve")
            /\ UNCHANGED <<calls, response, raised, raisedAt, nextId, issued>>
    /\ UNCHANGED <<tasks, agents, pool, served, request, embedding, agent_type,
                   selected_agent, result, encFailed, arunInput, storeArgs, routingArg>>

-----------------------------------------------------------------------------
(* Step 3: routing                                                         *)

\* request.get("type", "marketing")
AgentTypeOf(req) == IF req.type.has THEN req.type.val ELSE S_marketing

\* self.agents.get(agent_type, self.agents["marketing"])
Select(ags, key) == IF key \in DOMAIN ags THEN ags[key] ELSE ags[S_marketing]

\* dict.setdefault in place of dict.get: a missing key is added
AgentsAfterSelect_SetDefault(ags, key) ==
    IF key \in DOMAIN ags THEN ags ELSE (key :> ags[S_marketing]) @@ ags

\* dict.get leaves the mapping as it is
AgentsAfterSelect(ags, key) == ags

Route ==
    /\ pc = "route"
    /\ agent_type' = AgentTypeOf(request)
    /\ selected_agent' = Select(agents, AgentTypeOf(request))
    /\ agents' = AgentsAfterSelect(agents, AgentTypeOf(request))
    /\ pc' = StepAfter("route")
    /\ UNCHANGED <<tasks, pool, nextId, issued, served, request, embedding, memory,
                   result, response, raised, raisedAt, encFailed, calls, arunInput,
                   storeArgs, routingArg>>

-----------------------------------------------------------------------------
(* Step 4: result = await selected_agent.arun(input={...})                 *)

\* the input mapping: request["text"] is evaluated before arun is called
ArunInput(req) ==
    [called |-> TRUE, keys |-> {"query", "intermediate_steps"}, query |-> req.text.val,
     intermediate_steps |-> <<>>]

ArunOutcomes ==
    {[ret |-> TRUE, val |-> r, exc |-> NoExc] : r \in Results} \cup
    {[ret |-> FALSE, val |-> EmptyResult, exc |-> x] : x \in Raisable \cup {Cancelled}}

Execute ==
    /\ pc = "execute"
    /\ IF ~request.text.has
       THEN /\ Raise(Exc("KeyError", "'text'"), "input")
            /\ UNCHANGED <<calls, arunInput, result>>
       ELSE /\ calls' = Append(calls, "arun")
            /\ arunInput' = ArunInput(request)
            /\ \E out \in ArunOutcomes :
               IF out.ret
               THEN /\ result' = out.val
                    /\ pc' = StepAfter("execute")
                    /\ UNCHANGED <<response, raised, raisedAt, nextId, issued>>
               ELSE /\ Raise(out.exc, "arun")
                    /\ UNCHANGED result
    /\ UNCHANGED <<tasks, agents, pool, served, request, embedding, memory, agent_type,
                   selected_agent, encFailed, storeArgs, routingArg>>

-----------------------------------------------------------------------------
(* Step 5: if embedding is not None and result: self.memory.store(...)     *)

\* the store gate without the test of the result
StoreGate_NoResultTest(e, r) == ~e.isNone

\* the store gate testing the embedding as the retrieve gate does
StoreGate_Truthy(e, r) == EmbTruthy(e) /\ r # EmptyResult

StoreGate(e, r) == ~e.isNone /\ r # EmptyResult

\* the payload built from a key the request does not have
StorePayload_NoQuery(req, r) == [query |-> "", result |-> r]

StorePayload(req, r) == [query |-> req.text.val, result |-> r]

Store ==
    /\ pc = "store"
    /\ IF StoreGate(embedding, result)
       THEN /\ calls' = Append(calls, "store")
            /\ storeArgs' = [called |-> TRUE, embedding |-> embedding,
                             query |-> request.text.val, result |-> result]
            /\ \/ /\ ~PoolRejects(embedding)
                  /\ pool' = PoolStore(pool, embedding, StorePayload(request, result))
                  /\ pc' = StepAfter("store")
                  /\ UNCHANGED <<response, raised, raisedAt, nextId, issued>>
               \/ /\ PoolRejects(embedding)
                  /\ Raise(DimensionMismatch, "store")
                  /\ UNCHANGED pool
               \/ /\ ~PoolRejects(embedding)
                  /\ \E x \in Raisable : Raise(x, "store")
                  /\ UNCHANGED pool
       ELSE /\ pc' = StepAfter("store")
            /\ UNCHANGED <<calls, storeArgs, pool, response, raised, raisedAt,
                           nextId, issued>>
    /\ UNCHANGED <<tasks, agents, served, request, embedding, memory, agent_type,
                   selected_agent, result, encFailed, arunInput, routingArg>>

-----------------------------------------------------------------------------
(* Step 6: record_routing(expected_type == actual_type)                    *)

\* type(selected_agent).__name__
TypeName(agent) == agent.cls

Matched(key, agent) == Lower(key) = Lower(TypeName(agent))

Record ==
    /\ pc = "record"
    /\ calls' = Append(calls, "record_routing")
    /\ routingArg' = [called |-> TRUE, matched |-> Matched(agent_type, selected_agent)]
    /\ \/ /\ pc' = StepAfter("record")
          /\ UNCHANGED <<response, raised, raisedAt, nextId, issued>>
       \/ \E x \in Raisable : Raise(x, "record_routing")
    /\ UNCHANGED <<tasks, agents, pool, served, request, embedding, memory, agent_type,
                   selected_agent, result, encFailed, arunInput, storeArgs>>

-----------------------------------------------------------------------------
(* return result                                                           *)

Respond ==
    /\ pc = "respond"
    /\ response' = ResultResponse(result)
    /\ pc' = StepAfter("respond")
    /\ UNCHANGED <<tasks, agents, pool, nextId, issued, served, request, embedding, memory,
                   agent_type, selected_agent, result, raised, raisedAt, encFailed,
                   calls, arunInput, storeArgs, routingArg>>

-----------------------------------------------------------------------------

Next ==
    \/ \E req \in Requests : Receive(req)
    \/ GenerateEmbedding
    \/ MemoryJoin
    \/ Route
    \/ Execute
    \/ Store
    \/ Record
    \/ Respond

Spec == Init /\ [][Next]_vars

\* the event loop runs a task until it returns: every step whose awaited call
\* has completed is eventually taken
LiveSpec ==
    /\ Spec
    /\ WF_vars(GenerateEmbedding) /\ WF_vars(MemoryJoin) /\ WF_vars(Route)
    /\ WF_vars(Execute) /\ WF_vars(Store) /\ WF_vars(Record) /\ WF_vars(Respond)

TypeOK ==
    /\ pc \in {"idle", "embed", "retrieve", "route", "execute", "store", "record",
               "respond", "done"}
    /\ request \in Requests
    /\ served \in 0..MaxRequests
    /\ nextId \in 0..MaxRequests

-----------------------------------------------------------------------------
(* Concurrent calls of process_request on one event loop                   *)
(*                                                                         *)
(* A task runs without interruption between two awaits: from the call to   *)
(* the await of the encoder, from there to the await of arun, and from     *)
(* there to the return.  retrieve, store and record_routing are plain      *)
(* calls inside these blocks.                                              *)

seqVars == <<agents, nextId, issued, served, pc, request, embedding, memory,
             agent_type, selected_agent, result, response, raised, raisedAt,
             encFailed, calls, arunInput, storeArgs, routingArg>>

\* every task sends its own text
TaskText(t) == ToString(t)

ConcRequests(t) == [type : {Field(S_marketing)}, text : {Field(TaskText(t))},
                    image_url : {Absent, Field("http://img")}]

\* the task ends with exception e
Failed(task, e) == [task EXCEPT !.pc = "done", !.how = Handler(e)]

\* steps 2 to 4 up to the await of arun, once the embedding is known
AfterEmbedding(task, emb) ==
    LET joined(m) ==
            IF ~task.request.text.has
            THEN Failed([task EXCEPT !.embedding = emb, !.memory = m],
                        Exc("KeyError", "'text'"))
            ELSE [task EXCEPT !.embedding = emb, !.memory = m, !.pc = "running"]
    IN  IF RetrieveGate(emb)
        THEN {joined(PoolRetrieve(pool, emb))}
             \cup {Failed([task EXCEPT !.embedding = emb], x) : x \in Raisable}
        ELSE {joined(<<>>)}

\* the call: runs up to the first await
TStart(t) ==
    /\ tasks[t].pc = "new"
    /\ \E req \in ConcRequests(t) :
       LET task == [tasks[t] EXCEPT !.request = req] IN
       IF ChosenEncoder(req) = "none"
       THEN \E nt \in AfterEmbedding(task, NoneEmb) : tasks' = [tasks EXCEPT ![t] = nt]
       ELSE tasks' = [tasks EXCEPT ![t] = [task EXCEPT !.pc = "encoding"]]
    /\ UNCHANGED pool
    /\ UNCHANGED seqVars

\* the encoder call completes: runs up to the await of arun
TEncoded(t) ==
    /\ tasks[t].pc = "encoding"
    /\ \E out \in EncoderOutcomes :
       IF out.ret
       THEN \E nt \in AfterEmbedding(tasks[t], out.val) :
                tasks' = [tasks EXCEPT ![t] = nt]
       ELSE IF CaughtByEmbedding(out.exc)
       THEN \E nt \in AfterEmbedding(tasks[t], NoneEmb) :
                tasks' = [tasks EXCEPT ![t] = nt]
       ELSE tasks' = [tasks EXCEPT ![t] = Failed(tasks[t], out.exc)]
    /\ UNCHANGED pool
    /\ UNCHANGED seqVars

\* step 6 and the return, after step 5
AfterStore(task) ==
    {[task EXCEPT !.pc = "done", !.how = "result"]}
    \cup {Failed(task, x) : x \in Raisable}

\* arun completes: steps 5 and 6 and the return
TExecuted(t) ==
    /\ tasks[t].pc = "running"
    /\ \E out \in ArunOutcomes :
       IF ~out.ret
       THEN /\ tasks' = [tasks EXCEPT ![t] = Failed(tasks[t], out.exc)]
            /\ UNCHANGED pool
       ELSE LET task == [tasks[t] EXCEPT !.result = out.val] IN
            IF StoreGate(task.embedding, task.result)
            THEN IF PoolRejects(task.embedding)
                 THEN /\ tasks' = [tasks EXCEPT ![t] = Failed(task, DimensionMismatch)]
                      /\ UNCHANGED pool
                 ELSE /\ pool' = PoolStore(pool, task.embedding,
                                           StorePayload(task.request, task.result))
                      /\ \E nt \in AfterStore([task EXCEPT !.stored = @ + 1]) :
                             tasks' = [tasks EXCEPT ![t] = nt]
            ELSE /\ \E nt \in AfterStore(task) : tasks' = [tasks EXCEPT ![t] = nt]
                 /\ UNCHANGED pool
    /\ UNCHANGED seqVars

ConcNext == \E t \in Tasks : TStart(t) \/ TEncoded(t) \/ TExecuted(t)

ConcSpec == Init /\ [][ConcNext]_vars

-----------------------------------------------------------------------------
(* Properties                                                              *)

Called(op) == \E i \in DOMAIN calls : calls[i] = op

Count(op) == Cardinality({i \in DOMAIN calls : calls[i] = op})

Returned == pc = "done"

NoDuplicates(s) == \A i, j \in DOMAIN s : s[i] = s[j] => i = j

\* C1: a request whose type key is in the agent map, and which succeeds, is
\* routed to the agent mapped to the key and record_routing receives TRUE.
C1_MappedTypeMatched ==
    (Returned /\ response.how = "result" /\ request.type.has
        /\ request.type.val \in DOMAIN agents)
    => /\ selected_agent = agents[request.type.val]
       /\ routingArg = [called |-> TRUE, matched |-> TRUE]

\* C2: a request whose type key is not in the agent map is routed to the
\* marketing agent, record_routing receives FALSE, and when no step raises the
\* agent's result is the response.
C2_UnmappedTypeFallsBack ==
    (Returned /\ raised = NoExc /\ request.type.has
        /\ request.type.val \notin DOMAIN agents)
    => /\ selected_agent = agents[S_marketing]
       /\ routingArg = [called |-> TRUE, matched |-> FALSE]
       /\ response = ResultResponse(result)

\* C3: when a collaborator raises during agent execution, memory store or
\* metrics recording, the response is exactly the generic one, it carries no
\* detail of the exception, and its request_id was given to no other request.
C3_CollaboratorFailureIsGeneric ==
    (Returned /\ raisedAt \in {"arun", "store", "record_routing"}
        /\ IsException(raised))
    => /\ response.how = "busy"
       /\ response.keys = {"error", "code", "request_id"}
       /\ response.code = Code500
       /\ response.detail = ""
       /\ response.request_id = issued[Len(issued)]
       /\ NoDuplicates(issued)

\* C4: a request without a text field, with or without image_url, gets the
\* generic error response (here: when no collaborator raised before the
\* execution step, so that the missing text is what ends the request).
C4_MissingTextIsGeneric ==
    (Returned /\ ~request.text.has /\ raisedAt = "input")
    => response = Busy(response.request_id) /\ response.request_id > 0

\* C5: no execution of process_request returns the invalid-agent-type
\* response.
C5_InvalidAgentTypeUnreachable ==
    response.how # "invalid_agent_type"

ScenarioA == [type |-> Field(S_marketing), text |-> Field("promo plan"),
              image_url |-> Absent]

Routed ==
    \/ pc \in {"execute", "store", "record", "respond"}
    \/ pc = "done" /\ raisedAt \notin {"embed", "retrieve"}

\* C6 as stated: for {type: "marketing", text: non-empty} without image_url
\* the embedding is absent, the memory context is empty and retrieve is not
\* called, the marketing agent is selected, the result is returned unchanged
\* and nothing is stored when the result is empty (here: on the runs where no
\* step raises and the encoder does not return an empty list).
C6_ScenarioA_Original ==
    (request = ScenarioA /\ Returned /\ raised = NoExc /\ embedding # Emb(<<>>))
    => /\ embedding = NoneEmb
       /\ memory = <<>> /\ ~Called("retrieve")
       /\ Routed => selected_agent = agents[S_marketing]
       /\ raised = NoExc => response = ResultResponse(result)
       /\ result = EmptyResult => ~Called("store")

\* C6 amended: for {type: "marketing", text: non-empty} without image_url the
\* text encoder (and only it) is invoked; whenever the resulting embedding is
\* absent or empty the memory context is empty and retrieve is not called; the
\* marketing agent is selected; when no step raises the result is returned
\* unchanged; nothing is stored when the result is empty.
C6_ScenarioA ==
    (request = ScenarioA /\ pc \notin {"idle", "embed"})
    => /\ calls # <<>> /\ calls[1] = "encode_text" /\ ~Called("encode_image")
       /\ (pc # "retrieve" /\ ~EmbTruthy(embedding))
            => (memory = <<>> /\ ~Called("retrieve"))
       /\ Routed => selected_agent = agents[S_marketing]
       /\ (Returned /\ raised = NoExc) => response = ResultResponse(result)
       /\ result = EmptyResult => ~Called("store")

C6_Witness ==
    /\ request = ScenarioA /\ Returned
    /\ encFailed /\ embedding = NoneEmb
    /\ Called("arun") /\ ~Called("retrieve") /\ ~Called("store")
    /\ response = ResultResponse(EmptyResult)

\* C7: for a request with neither image_url nor text, _generate_embedding
\* returns None and calls no encoder.
C7_NoFieldsNoEncoder ==
    (~request.image_url.has /\ ~request.text.has /\ pc \notin {"idle", "embed"})
    => /\ embedding = NoneEmb
       /\ ~Called("encode_image") /\ ~Called("encode_text")

C7_Witness ==
    /\ ~request.image_url.has /\ ~request.text.has
    /\ pc = "retrieve" /\ served > 0 /\ calls = <<>>

\* C8 as stated: a call of _generate_embedding invokes at most one encoder,
\* and when both image_url and text are present it invokes the image encoder
\* and not the text encoder.
C8_ImagePriority_Original ==
    (pc \notin {"idle", "embed"})
    => /\ Count("encode_image") + Count("encode_text") <= 1
       /\ (request.image_url.has /\ request.text.has)
            => (Called("encode_image") /\ ~Called("encode_text"))

\* C8 amended: a call of _generate_embedding invokes at most one encoder, and
\* when text is present and image_url is present and non-empty it invokes the
\* image encoder and not the text encoder.
C8_ImagePriority ==
    (pc \notin {"idle", "embed"})
    => /\ Count("encode_image") + Count("encode_text") <= 1
       /\ (Truthy(request.image_url) /\ request.text.has)
            => (Called("encode_image") /\ ~Called("encode_text"))

C8_Witness ==
    /\ pc = "retrieve"
    /\ Truthy(request.image_url) /\ Truthy(request.text)
    /\ calls = <<"encode_image">>

\* C9: a failure raised by an encoder becomes an absent embedding and does not
\* fail the request: the memory context is empty, routing and execution
\* follow, and nothing is stored.
C9_EncoderFailureIsAbsorbed ==
    encFailed
    => /\ embedding = NoneEmb
       /\ raisedAt # "embed"
       /\ memory = <<>> /\ ~Called("retrieve")
       /\ ~Called("store") /\ ~storeArgs.called
       /\ Returned => (selected_agent # NoAgent
                       /\ raisedAt \in {"none", "input", "arun", "record_routing"}
                       /\ (request.text.has => Called("arun")))

C9_Witness ==
    /\ encFailed /\ Returned
    /\ calls = <<"encode_text", "arun", "record_routing">>
    /\ result # EmptyResult
    /\ response = ResultResponse(result)

\* C10: retrieve is called exactly when the embedding step produced an
\* embedding (anything other than absent); with an absent embedding the memory
\* context is empty; the gate of retrieve and the gate of store accept the
\* same embeddings.
C10_RetrieveGate ==
    (pc \notin {"idle", "embed", "retrieve"} /\ raisedAt # "embed")
    => /\ Called("retrieve") <=> ~embedding.isNone
       /\ embedding.isNone => memory = <<>>
       /\ RetrieveGate(embedding) <=> StoreGate(embedding, {"answer"})

\* arun was called and returned
ArunReturned == Called("arun") /\ raisedAt # "arun"

PastStore == pc \in {"record", "respond", "done"}

C11_StoreCalls ==
    PastStore
    => /\ Called("store")
            <=> (~embedding.isNone /\ ArunReturned /\ result # EmptyResult)
       /\ Called("store")
            => storeArgs = [called |-> TRUE, embedding |-> embedding,
                            query |-> request.text.val, result |-> result]
       /\ ~Called("store") => storeArgs = NoStore

C11_PoolGrowth ==
    pool' # pool
    => /\ pc = "store"
       /\ ~embedding.isNone /\ ArunReturned /\ result # EmptyResult
       /\ pool' = Append(pool, [embedding |-> embedding,
                                payload |-> [query |-> request.text.val,
                                             result |-> result]])

\* C11: memory.store is called for a request if and only if an embedding was
\* produced, arun returned without raising and its result is non-empty; the
\* payload is {query text, result}; the pool changes only by such a store, so a
\* request whose execution raised or returned an empty result stores nothing.
C11_StoreIff == [](C11_StoreCalls) /\ [][C11_PoolGrowth]_vars

C11_Witness ==
    /\ Returned /\ response = ResultResponse({"answer"})
    /\ Called("store")
    /\ pool # <<>>
    /\ pool[Len(pool)] = [embedding |-> embedding,
                          payload |-> [query |-> "promo plan", result |-> {"answer"}]]

\* C12: the input handed to arun contains the query text, the memory retrieved
\* for this request and an empty intermediate-step trace (here: for the requests
\* whose retrieve returned at least one record).
C12_ArunInputHasMemory ==
    (arunInput.called /\ memory # <<>>)
    => /\ "query" \in arunInput.keys /\ arunInput.query = request.text.val
       /\ "memory" \in arunInput.keys
       /\ "intermediate_steps" \in arunInput.keys
       /\ arunInput.intermediate_steps = <<>>

\* C13: when no step raises, the value returned by process_request is the
\* value returned by arun, whether or not a store occurred and whatever the
\* routing outcome was.
C13_ResultPassedThrough ==
    (Returned /\ raised = NoExc)
    => /\ ArunReturned
       /\ response.how = "result"
       /\ response.result = result
       /\ response.keys = {} /\ response.request_id = 0

C13_Witness ==
    /\ Returned /\ raised = NoExc
    /\ Called("store") /\ Len(pool) = 1
    /\ routingArg = [called |-> TRUE, matched |-> FALSE]
    /\ result = {"answer"} /\ response.result = {"answer"}

\* str.strip on a type key
RECURSIVE StripLeft(_)
StripLeft(s) == IF s # <<>> /\ Head(s) = " " THEN StripLeft(Tail(s)) ELSE s

Strip(s) == Reverse(StripLeft(Reverse(StripLeft(s))))

Normalized(s) == Strip(Lower(s))

\* C14: the type key is lower-cased and trimmed before the lookup: a request
\* whose normalized key is in the agent map gets the agent mapped to it, and a
\* request without a type field is routed as "marketing".
C14_NormalizedLookup ==
    Routed
    => /\ (request.type.has /\ Normalized(request.type.val) \in DOMAIN agents)
            => selected_agent = agents[Normalized(request.type.val)]
       /\ ~request.type.has => selected_agent = agents[S_marketing]

RecordsOf(t) == {i \in DOMAIN pool : pool[i].payload.query = TaskText(t)}

AllDone == \A t \in Tasks : tasks[t].pc = "done"

\* the task got an embedding the pool accepts and a non-empty result
Productive(t) ==
    /\ ~tasks[t].embedding.isNone /\ ~PoolRejects(tasks[t].embedding)
    /\ tasks[t].how \in {"result", "busy", "invalid_agent_type"}
    /\ tasks[t].result # EmptyResult

\* C15: under any interleaving of concurrent process_request tasks the pool
\* holds one record for each completed store, none lost or duplicated, each
\* record complete; when all N tasks have completed and each produced an
\* embedding and a non-empty result the pool holds exactly N records; the
\* memory a task retrieved is a snapshot of a prefix of the pool.
C15_ConcurrentStores ==
    /\ \A t \in Tasks : Cardinality(RecordsOf(t)) = tasks[t].stored
    /\ \A t \in Tasks : \A i \in RecordsOf(t) :
          pool[i] = [embedding |-> tasks[t].embedding,
                     payload |-> [query |-> TaskText(t), result |-> tasks[t].result]]
    /\ \A t \in Tasks : \E k \in 0..Len(pool) :
          tasks[t].memory = PoolRetrieve(SubSeq(pool, 1, k), tasks[t].embedding)
    /\ (AllDone /\ \A t \in Tasks : Productive(t))
          => (Len(pool) = NumTasks /\ \A t \in Tasks : Cardinality(RecordsOf(t)) = 1)

C15_Witness ==
    /\ AllDone /\ \A t \in Tasks : Productive(t)
    /\ Len(pool) = NumTasks
    /\ \E t \in Tasks : tasks[t].memory # <<>>
    /\ \E t \in Tasks : tasks[t].memory = <<>>

IsPrefix(s, t) == Len(s) <= Len(t) /\ SubSeq(t, 1, Len(s)) = s

C16_StoreOnce ==
    /\ Count("store") <= 1
    /\ raised = Cancelled => (raisedAt \in {"embed", "arun"} /\ ~Called("store"))

C16_NoRollback ==
    /\ IsPrefix(pool, pool')
    /\ pool' # pool => (Len(pool') = Len(pool) + 1 /\ calls' = Append(calls, "store"))
    /\ raised' = Cancelled => pool' = pool

\* C16: a request calls memory.store at most once; a request cancelled during
\* the encoder call or during arun stores no record; a record once stored stays
\* in the pool whatever happens later to the same or to a later request.
C16_AtMostOnceStore == [](C16_StoreOnce) /\ [][C16_NoRollback]_vars

C16_Witness ==
    /\ Returned /\ raised = Cancelled /\ raisedAt = "arun"
    /\ ~embedding.isNone /\ ~PoolRejects(embedding)
    /\ served = 2 /\ Len(pool) = 1

C17_PoolDimension ==
    \A i \in DOMAIN pool : Len(pool[i].embedding.vec) = EmbedDim

C17_MismatchIsError ==
    (Returned /\ storeArgs.called /\ PoolRejects(storeArgs.embedding))
    => /\ raised = DimensionMismatch /\ raisedAt = "store"
       /\ response.how = "busy" /\ response.code = Code500
       /\ response.keys = {"error", "code", "request_id"}
       /\ response.request_id = nextId /\ response.detail = ""

C17_MismatchStoresNothing ==
    (pc = "store" /\ StoreGate(embedding, result) /\ PoolRejects(embedding))
    => (pool' = pool /\ pc' = "done")

\* C17: every embedding held in the pool has embed_dim components; a store of
\* an embedding of another length fails with DimensionMismatch and leaves the
\* pool as it was, and the request then ends with the generic error response.
C17_DimensionMismatch ==
    [](C17_PoolDimension /\ C17_MismatchIsError) /\ [][C17_MismatchStoresNothing]_vars

C17_Witness ==
    /\ Returned /\ raised = DimensionMismatch
    /\ storeArgs.called /\ storeArgs.embedding = Emb(<<1>>)
    /\ response.how = "busy" /\ response.request_id = nextId
    /\ Len(pool) = 1

\* position of a collaborator call in the pipeline
Rank(op) ==
    CASE op \in {"encode_image", "encode_text"} -> 1
      [] op = "retrieve"       -> 2
      [] op = "arun"           -> 4
      [] op = "store"          -> 5
      [] op = "record_routing" -> 6

C18_CallOrder ==
    /\ \A i, j \in DOMAIN calls : i < j => Rank(calls[i]) < Rank(calls[j])
    /\ (Returned /\ response.how = "result")
          => /\ Called("arun")
             /\ Count("record_routing") = 1
             /\ calls[Len(calls)] = "record_routing"
    /\ (Returned /\ raisedAt \in {"embed", "retrieve", "input", "arun", "store"})
          => ~Called("record_routing")

C18_StepOrder ==
    /\ \A op \in {"encode_image", "encode_text", "retrieve"} :
          calls' = Append(calls, op) => selected_agent' = NoAgent
    /\ (selected_agent = NoAgent /\ selected_agent' # NoAgent) => ~Called("arun")
    /\ calls' = Append(calls, "arun") => selected_agent # NoAgent
    /\ (response'.how = "result" /\ response.how # "result")
          => (calls' = calls /\ calls # <<>> /\ calls[Len(calls)] = "record_routing")

\* C18: a request that ends with the result went through embed, retrieve (if
\* any), agent selection, arun, store (if any), record_routing and the return
\* in this order; record_routing is called exactly once for it, after the store
\* step and before the return, and is not called for a request that an earlier
\* step ended with an error.
C18_PipelineOrder == [](C18_CallOrder) /\ [][C18_StepOrder]_vars

C18_Witness ==
    /\ Returned /\ response.how = "result"
    /\ calls = <<"encode_image", "retrieve", "arun", "store", "record_routing">>

\* C19: no step of process_request, on any path, adds, removes or replaces an
\* entry of the agent map.
C19_AgentMapFixed == [](agents = InitAgents) /\ [][agents' = agents]_vars

C19_Witness ==
    /\ Returned /\ served = 2
    /\ request.type = Field(S_unknown_type)
    /\ response.how = "busy" /\ raisedAt = "arun"
    /\ selected_agent = agents[S_marketing]
    /\ DOMAIN agents = {S_marketing, S_operation, S_research}

InFlight == pc \notin {"idle", "done"}

C20_NeverPropagates ==
    /\ (Returned /\ raised # Cancelled)
          => response.how \in {"result", "busy", "invalid_agent_type"}
    /\ response.how = "propagated" => raised = Cancelled

\* C20: every call of process_request that is not cancelled eventually returns
\* a response mapping, the agent's result or an error mapping, and no ordinary
\* exception of a collaborator leaves it, also after the store was committed.
C20_Total == [](C20_NeverPropagates) /\ (InFlight ~> Returned)

C20_Witness ==
    /\ Returned /\ raisedAt = "record_routing" /\ raised = Exc("Exception", "boom")
    /\ Called("store") /\ pool # <<>>
    /\ pool[Len(pool)].payload = [query |-> request.text.val, result |-> result]
    /\ response.how = "busy"

====
